---- MODULE Spec2Model ----
(***************************************************************************)
(* Model of src/deepseek_chatbot.py: DeepSeekChatBot.send_message and      *)
(* DeepSeekChatBot._get_latest_reply driving a chat page.                  *)
(*                                                                         *)
(* The program is single-threaded; the page it drives is a second party    *)
(* that appends reply elements, drops old ones and rewrites the content of *)
(* the reply it is streaming at any moment between two steps of the        *)
(* program.  Texts are sequences of one-symbol strings.                    *)
(***************************************************************************)
EXTENDS Integers, Sequences, FiniteSets, TLC

\* ------------------------------------------------------------------ bounds
MaxReplies == 3      \* reply elements the page creates in one behaviour
MaxCalls == 2        \* calls of send_message in one behaviour
MaxMarkupLen == 4    \* length of a rendered markup
MaxPromptLen == 3    \* length of a prompt

\* ------------------------------------------------------- program constants
\* One attempt fewer than the loops are written with.
fewer_trials == 60 - 1

maximum_trials == 60
stability_threshold == 3

NL == "\n"
SHIFT == "SHIFT"
ENTER == "ENTER"
None == 0

PromptChars == {"a", "b", NL}

\* Rendered contents a reply element can show.  "<p>" and "</p>" stand for
\* the opening and closing tag of a paragraph.
Contents ==
  { <<>>, <<" ">>, <<"a">>, <<"b">> }

MarkupChars == {"a", " ", NL, "<p>", "</p>"}

\* "<p>Hello</p>\n<p></p>\n<p>World</p>", with one letter for each word
ExampleMarkup ==
  << "<p>", "a", "</p>", NL, "<p>", "</p>", NL, "<p>", "b", "</p>" >>

\* -------------------------------------------------------------- operators
SeqsUpTo(S, n) == UNION { [1..k -> S] : k \in 0..n }

Prompts == SeqsUpTo(PromptChars, MaxPromptLen) \ { <<>> }

\* The prompt the command line of the main Spec passes.
SessionPrompts == { <<"a", NL, "b">> }

\* Every markup the stabilized reply is normalized for.
Markups == SeqsUpTo(MarkupChars, MaxMarkupLen) \cup { ExampleMarkup }

IsSpace(c) == c \in {" ", NL}

\* A prompt typed as it is.
replaceRaw(s) == s

RECURSIVE replace(_)
\* prompt.replace("\n", Keys.SHIFT + Keys.ENTER + Keys.SHIFT)
replace(s) ==
  IF s = <<>> THEN <<>>
  ELSE IF Head(s) = NL THEN <<SHIFT, ENTER, SHIFT>> \o replace(Tail(s))
       ELSE <<Head(s)>> \o replace(Tail(s))

RECURSIVE md(_)
\* markdownify: a paragraph tag becomes a blank line, text is kept.
md(h) ==
  IF h = <<>> THEN <<>>
  ELSE IF Head(h) \in {"<p>", "</p>"} THEN <<NL, NL>> \o md(Tail(h))
       ELSE <<Head(h)>> \o md(Tail(h))

RECURSIVE lstrip(_)
lstrip(s) == IF s # <<>> /\ IsSpace(Head(s)) THEN lstrip(Tail(s)) ELSE s

RECURSIVE rstrip(_)
rstrip(s) ==
  IF s # <<>> /\ IsSpace(s[Len(s)]) THEN rstrip(SubSeq(s, 1, Len(s) - 1)) ELSE s

\* str.strip()
strip(s) == rstrip(lstrip(s))

RECURSIVE split(_)
\* str.split('\n'): the sequence of lines, at least one
split(s) ==
  IF \A i \in 1..Len(s) : s[i] # NL THEN << s >>
  ELSE LET i == CHOOSE k \in 1..Len(s) :
                    s[k] = NL /\ \A j \in 1..(k - 1) : s[j] # NL
       IN  << SubSeq(s, 1, i - 1) >> \o split(SubSeq(s, i + 1, Len(s)))

RECURSIVE keepEmptyLines(_)
\* Lines stripped, the empty ones not dropped.
keepEmptyLines(ls) ==
  IF ls = <<>> THEN <<>>
  ELSE << strip(Head(ls)) >> \o keepEmptyLines(Tail(ls))

RECURSIVE keep(_)
\* [line.strip() for line in ... if line.strip()]
keep(ls) ==
  IF ls = <<>> THEN <<>>
  ELSE IF strip(Head(ls)) = <<>> THEN keep(Tail(ls))
       ELSE << strip(Head(ls)) >> \o keep(Tail(ls))

RECURSIVE join(_)
\* '\n'.join(lines)
join(ls) ==
  IF ls = <<>> THEN <<>>
  ELSE IF Len(ls) = 1 THEN Head(ls)
       ELSE Head(ls) \o <<NL>> \o join(Tail(ls))

\* lines 119-120: the text returned for the stabilized markup
Normalize(h) == join(keep(split(strip(md(h)))))

Range(s) == { s[i] : i \in 1..Len(s) }

\* ------------------------------------------------------------------ state
NoReplyMsg == "No new reply detected"
UnstableMsg == "Response did not stabilize"
WaitMsg == "WebDriverWait timed out"
NoRead == << "no read yet" >>

VARIABLES
  pc,                  \* position of the program
  calls,               \* calls of send_message started so far
  is_our_first_chat,   \* self.is_our_first_chat
  prompt,              \* argument of the running call
  num_history_replies, \* baseline count of the running call
  box,                 \* keys the input control received since clear()
  trial,               \* iterations of the running loop completed
  latest_reply,        \* element tracked by the call, None before
  previous_html,
  stable_count,
  response,            \* text returned by the last call that returned
  error,               \* message of the exception the last call raised
  replies,             \* page: the reply elements, in document order
  nextId,              \* page: identity of the next element it creates
  html,                \* page: innerHTML of the element latest_reply names
  \* history of the running call, read by the properties only
  submits,             \* submit keys sent
  polls,               \* page accesses made by the running loop
  contentReads,        \* get_attribute calls made
  lastRead,            \* content found by the latest successful read
  streak,              \* latest successful reads that found the same content
  anyFail,             \* some read of the stability loop failed
  allFail,             \* every poll of the running loop failed so far
  cleanRun,            \* latest polls in a row that read one content, up to 3
  allDiffer,           \* every stability poll read content unlike the one before
  \* the program that owns the object
  mpc,                 \* position of the owner of the object
  bot,                 \* the owner's variable bot holds the object
  opened,              \* browsers uc.Chrome has started
  quits                \* calls of driver.quit()

vars == << pc, calls, is_our_first_chat, prompt, num_history_replies, box,
           trial, latest_reply, previous_html, stable_count, response, error,
           replies, nextId, html,
           submits, polls, contentReads, lastRead, streak, anyFail, allFail,
           cleanRun, allDiffer, mpc, bot, opened, quits >>

page == << replies, nextId, html >>
selfVars == << calls, is_our_first_chat >>
locals == << prompt, num_history_replies, latest_reply, previous_html,
             stable_count >>
result == << response, error >>
readHist == << contentReads, lastRead, streak, anyFail, cleanRun, allDiffer >>
mainVars == << mpc, bot, opened, quits >>

Init ==
  /\ pc = "idle"
  /\ calls = 0
  /\ is_our_first_chat = TRUE
  /\ prompt = <<>>
  /\ num_history_replies = 0
  /\ box = <<>>
  /\ trial = 0
  /\ latest_reply = None
  /\ previous_html = <<>>
  /\ stable_count = 0
  /\ response = <<>>
  /\ error = ""
  /\ replies = <<>>
  /\ nextId = 1
  /\ html = <<>>
  /\ submits = 0
  /\ polls = 0
  /\ contentReads = 0
  /\ lastRead = NoRead
  /\ streak = 0
  /\ cleanRun = 0
  /\ anyFail = FALSE
  /\ allFail = TRUE
  /\ allDiffer = TRUE
  /\ mpc = "caller"
  /\ bot = TRUE
  /\ opened = 1
  /\ quits = 0

\* ------------------------------------------------------------- send_message
\* A call starts: the locals of the call and its history are fresh.
send_message(p) ==
  /\ pc \in {"idle", "returned", "raised"}
  /\ calls < MaxCalls
  /\ pc' = "baseline"
  /\ calls' = calls + 1
  /\ prompt' = p
  /\ num_history_replies' = 0
  /\ trial' = 0
  /\ latest_reply' = None
  /\ previous_html' = <<>>
  /\ stable_count' = 0
  /\ response' = <<>>
  /\ error' = ""
  /\ submits' = 0
  /\ polls' = 0
  /\ contentReads' = 0
  /\ lastRead' = NoRead
  /\ streak' = 0
  /\ cleanRun' = 0
  /\ anyFail' = FALSE
  /\ allFail' = TRUE
  /\ allDiffer' = TRUE
  /\ UNCHANGED << is_our_first_chat, box, page >>
  /\ UNCHANGED mainVars

\* lines 54-55: the first exchange takes 0 as the baseline
BaselineFirst ==
  /\ pc = "baseline"
  /\ is_our_first_chat
  /\ num_history_replies' = 0
  /\ pc' = "input"
  /\ UNCHANGED << selfVars, prompt, box, trial, latest_reply, previous_html,
                  stable_count, result, page, submits, polls, allFail, readHist >>
  /\ UNCHANGED mainVars

\* lines 56-59: the wait ends as soon as the page shows a reply element
BaselineQuery ==
  /\ pc = "baseline"
  /\ ~is_our_first_chat
  /\ replies # <<>>
  /\ num_history_replies' = Len(replies)
  /\ pc' = "input"
  /\ UNCHANGED << selfVars, prompt, box, trial, latest_reply, previous_html,
                  stable_count, result, page, submits, polls, allFail, readHist >>
  /\ UNCHANGED mainVars

\* lines 57-58: no reply element within the 10 s of the wait
BaselineTimeout ==
  /\ pc = "baseline"
  /\ ~is_our_first_chat
  /\ replies = <<>>
  /\ pc' = "raised"
  /\ error' = WaitMsg
  /\ UNCHANGED << selfVars, locals, box, trial, response, page, submits,
                  polls, allFail, readHist >>
  /\ UNCHANGED mainVars

\* lines 62-63: the input control becomes clickable within the wait
FindInput ==
  /\ pc = "input"
  /\ pc' = "clear"
  /\ UNCHANGED << selfVars, locals, box, trial, result, page, submits, polls, allFail,
                  readHist >>
  /\ UNCHANGED mainVars

\* lines 62-63: the input control is not clickable within the 10 s
FindInputTimeout ==
  /\ pc = "input"
  /\ pc' = "raised"
  /\ error' = WaitMsg
  /\ UNCHANGED << selfVars, locals, box, trial, response, page, submits,
                  polls, allFail, readHist >>
  /\ UNCHANGED mainVars

\* line 67
Clear ==
  /\ pc = "clear"
  /\ box' = <<>>
  /\ pc' = "fill"
  /\ UNCHANGED << selfVars, locals, trial, result, page, submits, polls, allFail,
                  readHist >>
  /\ UNCHANGED mainVars

\* lines 66, 68
SendKeys ==
  /\ pc = "fill"
  /\ box' = box \o replace(prompt)
  /\ pc' = "enter"
  /\ UNCHANGED << selfVars, locals, trial, result, page, submits, polls, allFail,
                  readHist >>
  /\ UNCHANGED mainVars

\* line 69, and the call of _get_latest_reply on line 74
SendEnter ==
  /\ pc = "enter"
  /\ box' = Append(box, ENTER)
  /\ submits' = submits + 1
  /\ pc' = "appear"
  /\ trial' = 0
  /\ polls' = 0
  /\ allFail' = TRUE
  /\ UNCHANGED << selfVars, locals, result, page, readHist >>
  /\ UNCHANGED mainVars

\* --------------------------------------------------------- _get_latest_reply
\* line 97
Appeared(all_replies, n) == Len(all_replies) > n

\* The newest element instead of the one at the baseline index.
PickNewest(all_replies, n) == all_replies[Len(all_replies)]

\* line 98: Python indexes from 0
Pick(all_replies, n) == all_replies[n + 1]

\* line 108
InitialPrevious == <<>>

\* Stable one comparison early.
StableOneEarly(count) == count >= stability_threshold - 1

\* line 117
Stable(count) == count >= stability_threshold

\* The element is still part of the page: a read of a removed one is stale.
Attached(e) == e \in Range(replies)

\* A stability loop that goes on with the attempts the appearance loop left.
AppearFoundSharesBudget ==
  /\ pc = "appear"
  /\ trial < maximum_trials
  /\ Appeared(replies, num_history_replies)
  /\ latest_reply' = Pick(replies, num_history_replies)
  /\ previous_html' = InitialPrevious
  /\ stable_count' = 0
  /\ pc' = "stable"
  /\ trial' = trial + 1
  /\ polls' = 0
  /\ allFail' = TRUE
  /\ html' \in Contents
  /\ UNCHANGED << selfVars, prompt, num_history_replies, box, result, replies,
                  nextId, submits, readHist >>
  /\ UNCHANGED mainVars

\* lines 94-99, 104, 108-110: a poll that finds more replies than the
\* baseline fixes the tracked element and enters the stability loop.  The
\* content that element shows at this moment is the page's choice.
AppearFound ==
  /\ pc = "appear"
  /\ trial < maximum_trials
  /\ Appeared(replies, num_history_replies)
  /\ latest_reply' = Pick(replies, num_history_replies)
  /\ previous_html' = InitialPrevious
  /\ stable_count' = 0
  /\ pc' = "stable"
  /\ trial' = 0
  /\ polls' = 0
  /\ allFail' = TRUE
  /\ html' \in Contents
  /\ UNCHANGED << selfVars, prompt, num_history_replies, box, result, replies,
                  nextId, submits, readHist >>
  /\ UNCHANGED mainVars

\* lines 94-97, 102: a poll that finds no new reply
AppearNone ==
  /\ pc = "appear"
  /\ trial < maximum_trials
  /\ ~Appeared(replies, num_history_replies)
  /\ trial' = trial + 1
  /\ polls' = polls + 1
  /\ allFail' = FALSE
  /\ UNCHANGED << pc, selfVars, locals, box, result, page, submits, readHist >>
  /\ UNCHANGED mainVars

\* A failed lookup that reaches the caller.
AppearFailRaises ==
  /\ pc = "appear"
  /\ trial < maximum_trials
  /\ pc' = "raised"
  /\ error' = "find_elements failed"
  /\ trial' = trial + 1
  /\ polls' = polls + 1
  /\ UNCHANGED << selfVars, locals, box, response, page, submits, allFail,
                  readHist >>
  /\ UNCHANGED mainVars

\* A failed lookup after which the submit key is sent again.
AppearFailResubmits ==
  /\ pc = "appear"
  /\ trial < maximum_trials
  /\ box' = Append(box, ENTER)
  /\ submits' = submits + 1
  /\ trial' = trial + 1
  /\ polls' = polls + 1
  /\ UNCHANGED << pc, selfVars, locals, result, page, allFail, readHist >>
  /\ UNCHANGED mainVars

\* lines 100-102: find_elements raises, the exception is swallowed
AppearFail ==
  /\ pc = "appear"
  /\ trial < maximum_trials
  /\ trial' = trial + 1
  /\ polls' = polls + 1
  /\ UNCHANGED allFail
  /\ UNCHANGED << pc, selfVars, locals, box, result, page, submits, readHist >>
  /\ UNCHANGED mainVars

\* An appearance loop that gives up one attempt early.
AppearGivesUpEarly ==
  /\ pc = "appear"
  /\ trial >= maximum_trials - 1
  /\ latest_reply = None
  /\ pc' = "raised"
  /\ error' = NoReplyMsg
  /\ UNCHANGED << selfVars, locals, box, trial, response, page, submits,
                  polls, allFail, readHist >>
  /\ UNCHANGED mainVars

\* lines 104-105: the loop ran out
AppearExhausted ==
  /\ pc = "appear"
  /\ trial = maximum_trials
  /\ latest_reply = None
  /\ pc' = "raised"
  /\ error' = NoReplyMsg
  /\ UNCHANGED << selfVars, locals, box, trial, response, page, submits,
                  polls, allFail, readHist >>
  /\ UNCHANGED mainVars

\* History of a successful read of content c.
Recorded(c) ==
  /\ contentReads' = contentReads + 1
  /\ lastRead' = c
  /\ streak' = IF c = lastRead THEN streak + 1 ELSE 1
  /\ cleanRun' = IF c = lastRead /\ cleanRun > 0
                 THEN (IF cleanRun < stability_threshold THEN cleanRun + 1
                       ELSE cleanRun)
                 ELSE 1
  /\ allDiffer' = (allDiffer /\ c # lastRead)
  /\ allFail' = FALSE
  /\ UNCHANGED anyFail

\* lines 114-120, and lines 75-76 of send_message: the read finds the
\* content of the poll before for the stability_threshold-th time in a row
StableReturn ==
  /\ pc = "stable"
  /\ trial < maximum_trials
  /\ Attached(latest_reply)
  /\ html = previous_html
  /\ Stable(stable_count + 1)
  /\ stable_count' = stable_count + 1
  /\ response' = Normalize(html)
  /\ is_our_first_chat' = FALSE
  /\ pc' = "returned"
  /\ trial' = trial + 1
  /\ polls' = polls + 1
  /\ Recorded(html)
  /\ UNCHANGED << calls, prompt, num_history_replies, box, latest_reply,
                  previous_html, error, page, submits >>
  /\ UNCHANGED mainVars

\* lines 114-117, 127: the read finds the content of the poll before
StableSame ==
  /\ pc = "stable"
  /\ trial < maximum_trials
  /\ Attached(latest_reply)
  /\ html = previous_html
  /\ ~Stable(stable_count + 1)
  /\ stable_count' = stable_count + 1
  /\ trial' = trial + 1
  /\ polls' = polls + 1
  /\ Recorded(html)
  /\ UNCHANGED << pc, selfVars, prompt, num_history_replies, box, latest_reply,
                  previous_html, result, page, submits >>
  /\ UNCHANGED mainVars

\* A changed content that leaves the counter as it is.
StableChangedKeepsCount ==
  /\ pc = "stable"
  /\ trial < maximum_trials
  /\ Attached(latest_reply)
  /\ html # previous_html
  /\ previous_html' = html
  /\ trial' = trial + 1
  /\ polls' = polls + 1
  /\ Recorded(html)
  /\ UNCHANGED << pc, selfVars, prompt, num_history_replies, box, latest_reply,
                  stable_count, result, page, submits >>
  /\ UNCHANGED mainVars

\* A changed content that counts as the first of the equal reads.
StableChangedCountsOne ==
  /\ pc = "stable"
  /\ trial < maximum_trials
  /\ Attached(latest_reply)
  /\ html # previous_html
  /\ stable_count' = 1
  /\ previous_html' = html
  /\ trial' = trial + 1
  /\ polls' = polls + 1
  /\ Recorded(html)
  /\ UNCHANGED << pc, selfVars, prompt, num_history_replies, box, latest_reply,
                  result, page, submits >>
  /\ UNCHANGED mainVars

\* lines 114-115, 122-124, 127: the read finds other content
StableChanged ==
  /\ pc = "stable"
  /\ trial < maximum_trials
  /\ Attached(latest_reply)
  /\ html # previous_html
  /\ stable_count' = 0
  /\ previous_html' = html
  /\ trial' = trial + 1
  /\ polls' = polls + 1
  /\ Recorded(html)
  /\ UNCHANGED << pc, selfVars, prompt, num_history_replies, box, latest_reply,
                  result, page, submits >>
  /\ UNCHANGED mainVars

\* A failed read that starts the count of equal reads again.
StableFailResets ==
  /\ pc = "stable"
  /\ trial < maximum_trials
  /\ stable_count' = 0
  /\ trial' = trial + 1
  /\ polls' = polls + 1
  /\ contentReads' = contentReads + 1
  /\ anyFail' = TRUE
  /\ cleanRun' = 0
  /\ allDiffer' = FALSE
  /\ UNCHANGED << pc, selfVars, prompt, num_history_replies, latest_reply,
                  previous_html, box, result, page, submits, lastRead, streak,
                  allFail >>
  /\ UNCHANGED mainVars

\* A failed read that reaches the caller.
StableFailRaises ==
  /\ pc = "stable"
  /\ trial < maximum_trials
  /\ pc' = "raised"
  /\ error' = "stale element reference"
  /\ trial' = trial + 1
  /\ polls' = polls + 1
  /\ contentReads' = contentReads + 1
  /\ anyFail' = TRUE
  /\ cleanRun' = 0
  /\ allDiffer' = FALSE
  /\ UNCHANGED << selfVars, locals, box, response, page, submits, lastRead,
                  streak, allFail >>
  /\ UNCHANGED mainVars

\* lines 125-127: get_attribute raises (the element is stale or in the
\* middle of a re-render), the exception is swallowed
StableFail ==
  /\ pc = "stable"
  /\ trial < maximum_trials
  /\ trial' = trial + 1
  /\ polls' = polls + 1
  /\ contentReads' = contentReads + 1
  /\ anyFail' = TRUE
  /\ cleanRun' = 0
  /\ allDiffer' = FALSE
  /\ UNCHANGED allFail
  /\ UNCHANGED << pc, selfVars, locals, box, result, page, submits, lastRead,
                  streak >>
  /\ UNCHANGED mainVars

\* line 130: the loop ran out
StableExhausted ==
  /\ pc = "stable"
  /\ trial = maximum_trials
  /\ pc' = "raised"
  /\ error' = UnstableMsg
  /\ UNCHANGED << selfVars, locals, box, trial, response, page, submits,
                  polls, allFail, readHist >>
  /\ UNCHANGED mainVars

\* ------------------------------------------------------------------- page
\* The page shows one more reply element.
PageAppend ==
  /\ nextId <= MaxReplies
  /\ replies' = Append(replies, nextId)
  /\ nextId' = nextId + 1
  /\ UNCHANGED << pc, selfVars, locals, box, trial, result, html, submits,
                  polls, allFail, readHist >>
  /\ UNCHANGED mainVars

\* The page drops its oldest reply element.
PageRemove ==
  /\ replies # <<>>
  /\ replies' = Tail(replies)
  /\ UNCHANGED << pc, selfVars, locals, box, trial, result, nextId, html,
                  submits, polls, allFail, readHist >>
  /\ UNCHANGED mainVars

\* The page rewrites the content of the tracked reply element.
PageEdit(c) ==
  /\ latest_reply # None
  /\ c # html
  /\ html' = c
  /\ UNCHANGED << pc, selfVars, locals, box, trial, result, replies, nextId,
                  submits, polls, allFail, readHist >>
  /\ UNCHANGED mainVars

\* ---------------------------------------------------------- specifications
Next ==
  \/ \E p \in SessionPrompts : send_message(p)
  \/ BaselineFirst
  \/ BaselineQuery
  \/ BaselineTimeout
  \/ FindInput
  \/ FindInputTimeout
  \/ Clear
  \/ SendKeys
  \/ SendEnter
  \/ AppearFound
  \/ AppearNone
  \/ AppearFail
  \/ AppearExhausted
  \/ StableReturn
  \/ StableSame
  \/ StableChanged
  \/ StableFail
  \/ StableExhausted
  \/ PageAppend
  \/ PageRemove
  \/ \E c \in Contents : PageEdit(c)

Spec == Init /\ [][Next]_vars

\* The submission steps of send_message (lines 51-69) over every prompt.
NextInput ==
  \/ \E p \in Prompts : send_message(p)
  \/ BaselineFirst
  \/ FindInput
  \/ FindInputTimeout
  \/ Clear
  \/ SendKeys
  \/ SendEnter

SpecInput == Init /\ [][NextInput]_vars

\* The stability loop of a first exchange one equal read short of the
\* threshold (lines 112-117), the tracked reply showing any markup.
InitNormalize ==
  /\ pc = "stable"
  /\ calls = 1
  /\ is_our_first_chat = TRUE
  /\ prompt \in SessionPrompts
  /\ num_history_replies = 0
  /\ box = replace(prompt) \o <<ENTER>>
  /\ latest_reply = 1
  /\ replies = <<1>>
  /\ nextId = 2
  /\ html \in Markups
  /\ previous_html = html
  /\ stable_count = stability_threshold - 1
  /\ trial = (IF html = InitialPrevious THEN stable_count ELSE stable_count + 1)
  /\ polls = trial
  /\ contentReads = trial
  /\ lastRead = html
  /\ streak = trial
  /\ cleanRun = trial
  /\ submits = 1
  /\ response = <<>>
  /\ error = ""
  /\ anyFail = FALSE
  /\ allFail = FALSE
  /\ allDiffer = FALSE
  /\ mpc = "caller"
  /\ bot = TRUE
  /\ opened = 1
  /\ quits = 0

\* The read that declares the content stable and normalizes it.
NextNormalize == StableReturn

SpecNormalize == InitNormalize /\ [][NextNormalize]_vars

\* A step of the running call, the steps of its two loops first.
ProgramStep ==
  \/ StableExhausted
  \/ StableFail
  \/ StableChanged
  \/ StableSame
  \/ StableReturn
  \/ AppearExhausted
  \/ AppearFail
  \/ AppearNone
  \/ AppearFound
  \/ SendEnter
  \/ SendKeys
  \/ Clear
  \/ FindInputTimeout
  \/ FindInput
  \/ BaselineTimeout
  \/ BaselineQuery
  \/ BaselineFirst

\* --------------------------------------------------------------- __main__
\* What input() can return that ends the interactive loop, in some spellings.
Commands == {"exit", "Exit", "quit", "QUIT"}

lower(m) ==
  CASE m = "Exit" -> "exit"
    [] m = "QUIT" -> "quit"
    [] OTHER -> m

objectVars == << pc, calls, locals, box, trial, result, page, submits, polls,
                 allFail, readHist >>

\* line 139: the program starts with bot = None, no browser and no object
InitMain ==
  /\ mpc = "start"
  /\ bot = FALSE
  /\ opened = 0
  /\ quits = 0
  /\ pc = "idle"
  /\ calls = 0
  /\ is_our_first_chat = FALSE
  /\ prompt = <<>>
  /\ num_history_replies = 0
  /\ box = <<>>
  /\ trial = 0
  /\ latest_reply = None
  /\ previous_html = <<>>
  /\ stable_count = 0
  /\ response = <<>>
  /\ error = ""
  /\ replies = <<>>
  /\ nextId = 1
  /\ html = <<>>
  /\ submits = 0
  /\ polls = 0
  /\ contentReads = 0
  /\ lastRead = NoRead
  /\ streak = 0
  /\ cleanRun = 0
  /\ anyFail = FALSE
  /\ allFail = TRUE
  /\ allDiffer = TRUE

\* lines 164-166 and 133-135: bot.close(), that is driver.quit(), when bot
\* holds an object; the program ends
Finally ==
  /\ quits' = IF bot THEN quits + 1 ELSE quits
  /\ mpc' = "ended"
  /\ UNCHANGED << bot, opened, is_our_first_chat, objectVars >>

\* lines 145, 24-32: uc.Chrome starts the browser
OpenBrowser ==
  /\ mpc = "start"
  /\ mpc' = "init"
  /\ opened' = opened + 1
  /\ UNCHANGED << bot, quits, is_our_first_chat, objectVars >>

\* line 28 raises, no browser was started; lines 162-166
OpenFails ==
  /\ mpc = "start"
  /\ Finally

\* lines 36 and 145-147: the object is complete and assigned to bot, the
\* program goes on with the message of the command line or the loop
Constructed ==
  /\ is_our_first_chat' = TRUE
  /\ bot' = TRUE
  /\ mpc' \in {"argv", "loop"}
  /\ UNCHANGED << opened, quits, objectVars >>

\* lines 34-35, 40-44: the chat input is there within 15 seconds
LoginReady ==
  /\ mpc = "init"
  /\ Constructed

\* lines 45-46: the first wait timed out, the user is asked to log in
LoginPrompt ==
  /\ mpc = "init"
  /\ mpc' = "login"
  /\ UNCHANGED << bot, opened, quits, is_our_first_chat, objectVars >>

\* lines 47-49: the chat input is there within 120 seconds
LoginSuccessful ==
  /\ mpc = "login"
  /\ Constructed

\* lines 47-48: the second wait times out too; the TimeoutException leaves
\* __init__ and line 145 before bot is assigned; lines 162-166
LoginFails ==
  /\ mpc = "login"
  /\ Finally

\* lines 148-149 and 154-157: the program passes a message to send_message
MainSend(p) ==
  /\ \/ mpc = "argv" /\ pc = "idle"
     \/ mpc = "loop" /\ pc \in {"idle", "returned"}
  /\ send_message(p)

\* lines 150, 164-166: the reply to the message of the command line is
\* printed
MainPrint ==
  /\ mpc = "argv"
  /\ pc = "returned"
  /\ Finally

\* lines 154-156, 164-166: the user types exit or quit
MainExit ==
  /\ mpc = "loop"
  /\ pc \in {"idle", "returned"}
  /\ \E m \in Commands : lower(m) \in {"exit", "quit"}
  /\ Finally

\* lines 162-166: send_message raised
MainError ==
  /\ mpc \in {"argv", "loop"}
  /\ pc = "raised"
  /\ Finally

\* lines 160-161, 164-166: Ctrl+C anywhere in the try block
KeyboardInterrupt ==
  /\ mpc \in {"start", "init", "login", "argv", "loop"}
  /\ Finally

\* The program has an object and has not ended.
Serving == mpc \in {"argv", "loop"}

NextMain ==
  \/ OpenBrowser
  \/ OpenFails
  \/ LoginReady
  \/ LoginPrompt
  \/ LoginSuccessful
  \/ LoginFails
  \/ \E p \in SessionPrompts : MainSend(p)
  \/ MainPrint
  \/ MainExit
  \/ MainError
  \/ KeyboardInterrupt
  \/ Serving /\ BaselineFirst
  \/ Serving /\ BaselineQuery
  \/ Serving /\ BaselineTimeout
  \/ Serving /\ FindInput
  \/ Serving /\ FindInputTimeout
  \/ Serving /\ Clear
  \/ Serving /\ SendKeys
  \/ Serving /\ SendEnter
  \/ Serving /\ AppearFound
  \/ Serving /\ AppearNone
  \/ Serving /\ AppearFail
  \/ Serving /\ AppearExhausted
  \/ Serving /\ StableReturn
  \/ Serving /\ StableSame
  \/ Serving /\ StableChanged
  \/ Serving /\ StableFail
  \/ Serving /\ StableExhausted
  \/ Serving /\ PageAppend
  \/ Serving /\ PageRemove
  \/ Serving /\ \E c \in Contents : PageEdit(c)

SpecMain == InitMain /\ [][NextMain]_vars


\* ------------------------------------------------------------------ claims
Done == pc \in {"returned", "raised"}

\* C1: send_message never returns the empty string: every normal return
\* yields non-empty text.
C1_NeverReturnsEmpty == pc = "returned" => response # <<>>

\* C2, as claimed: the content a returned text was made of is the final
\* content of the reply element: the page does not change it after the
\* return.  Stated for the non-empty returns, the empty ones being C1's.
C2_ReturnedContentIsFinal ==
  [][(pc = "returned" /\ response # <<>>) => html' = html]_vars

\* C2, amended: a returned text is the normalization of the content the
\* returning poll read, which the stability_threshold successful reads before
\* it found as well (one read fewer when that content is empty): content the
\* page had replaced before the returning poll is never returned.
C2_ReturnedContentWasStable ==
  pc = "returned" =>
    /\ response = Normalize(lastRead)
    /\ lastRead = previous_html
    /\ streak >= stability_threshold
    /\ lastRead # <<>> => streak >= stability_threshold + 1

C2_Witness ==
  /\ pc = "returned"
  /\ response = <<"b">>
  /\ anyFail
  /\ contentReads > streak + 1

\* Polls in a row, up to the latest, whose content equals that of the poll
\* before, the first poll being compared with the empty string (for a loop
\* without read failures).
EqualPolls ==
  IF lastRead = <<>> /\ streak = contentReads THEN streak ELSE streak - 1

\* C3, as claimed: without read failures stability is declared at the first
\* poll that is the 3rd observation in a row of the same content.
C3_ThirdObservation ==
  ~anyFail =>
    /\ pc = "stable" => streak < 3
    /\ pc = "returned" => streak = 3

\* C3, amended: without read failures stability is declared at the first
\* poll that is the 3rd in a row to read the content of the poll before it
\* (the first poll is compared with the empty string); for the reads
\* a, a, b, b, b, b that is the poll that reads the 4th b in a row.
C3_ThirdEqualPoll ==
  ~anyFail =>
    /\ pc = "stable" => EqualPolls < 3
    /\ pc = "returned" => EqualPolls = 3
    /\ pc = "returned" /\ lastRead # <<>> => streak = 4

C3_Witness ==
  /\ pc = "returned"
  /\ ~anyFail
  /\ contentReads = 6
  /\ lastRead = <<"b">>
  /\ streak = 4

\* C4: in a non-first exchange the poll that first sees more replies than
\* the baseline N fixes the element at index N of the list it sees, and the
\* stability phase never selects another one.
C4_TracksIndexN ==
  [][ /\ (pc = "appear" /\ pc' = "stable" /\ ~is_our_first_chat) =>
           /\ Len(replies) > num_history_replies
           /\ latest_reply' = replies[num_history_replies + 1]
      /\ (pc = "stable" /\ ~is_our_first_chat) =>
           /\ latest_reply' = latest_reply
           /\ latest_reply # None ]_vars

C4_Witness ==
  /\ pc = "stable"
  /\ ~is_our_first_chat
  /\ num_history_replies = 1
  /\ Len(replies) = 3
  /\ latest_reply = replies[2]
  /\ trial > 0

C6_NoReply ==
  /\ pc = "appear" => latest_reply = None /\ polls <= 60 /\ contentReads = 0
  /\ latest_reply = None => ~(pc \in {"stable", "returned"})
  /\ (pc = "raised" /\ latest_reply = None /\ submits = 1) =>
       /\ error = NoReplyMsg
       /\ polls = 60
       /\ contentReads = 0
       /\ response = <<>>

C6_Witness ==
  /\ pc = "raised"
  /\ error = NoReplyMsg
  /\ ~is_our_first_chat
  /\ num_history_replies = 2
  /\ Len(replies) = 2

\* C7: when every one of the 60 stability polls reads content unlike the
\* poll before, the call raises the unstable-reply timeout after exactly 60
\* stability polls and returns no text.
C7_Unstable ==
  (allDiffer /\ contentReads > 0) =>
    /\ pc \in {"stable", "raised"}
    /\ contentReads <= 60
    /\ (pc = "stable" /\ contentReads = 60) => trial = maximum_trials
    /\ pc = "raised" =>
         /\ error = UnstableMsg
         /\ contentReads = 60
         /\ polls = 60
         /\ response = <<>>

C7_Witness ==
  /\ pc = "raised"
  /\ error = UnstableMsg
  /\ allDiffer
  /\ contentReads = 60

C9_FailuresSwallowed ==
  /\ pc \in {"appear", "stable"} => polls = trial /\ trial <= 60
  /\ pc = "raised" => error \in {WaitMsg, NoReplyMsg, UnstableMsg}
  /\ (allFail /\ polls > 0) =>
       /\ pc \in {"appear", "stable", "raised"}
       /\ pc = "raised" =>
            /\ polls = 60
            /\ error = (IF latest_reply = None THEN NoReplyMsg
                        ELSE UnstableMsg)

C9_Witness ==
  /\ pc = "raised"
  /\ error = UnstableMsg
  /\ allFail
  /\ polls = 60

\* Newlines among the first i characters of s.
Newlines(s, i) == Cardinality({ j \in 1..i : s[j] = NL })

\* Position in the typed text of the i-th character of the prompt.
TypedAt(s, i) == i + 2 * Newlines(s, i - 1)

\* C10: the text typed into the input control holds no raw newline: every
\* newline of the prompt is typed as the soft-newline keys, every other
\* character as itself and in order, and one submit key follows the text.
C10_NoRawNewline ==
  /\ pc \in {"enter", "appear"} => \A i \in 1..Len(box) : box[i] # NL
  /\ pc = "appear" =>
       /\ Len(box) = Len(prompt) + 2 * Newlines(prompt, Len(prompt)) + 1
       /\ box[Len(box)] = ENTER
       /\ \A i \in 1..Len(prompt) :
            LET k == TypedAt(prompt, i)
            IN  IF prompt[i] = NL
                THEN SubSeq(box, k, k + 2) = <<SHIFT, ENTER, SHIFT>>
                ELSE box[k] = prompt[i]

C10_Witness ==
  /\ pc = "appear"
  /\ prompt = <<"a", NL, "b">>
  /\ box = <<"a", SHIFT, ENTER, SHIFT, "b", ENTER>>

\* The positions that bound the lines of t: its newlines and its two ends.
Cuts(t) == {0, Len(t) + 1} \cup { i \in 1..Len(t) : t[i] = NL }

\* The lines of t, each as the pair of the cuts around it.
LinesOf(t) ==
  { c \in Cuts(t) \X Cuts(t) :
      c[1] < c[2] /\ \A k \in Cuts(t) : ~(c[1] < k /\ k < c[2]) }

\* The line between two cuts without the whitespace at its two ends.
Trimmed(t, c) ==
  LET ink == { i \in (c[1] + 1)..(c[2] - 1) : ~IsSpace(t[i]) }
  IN  IF ink = {} THEN <<>>
      ELSE SubSeq(t, CHOOSE i \in ink : \A j \in ink : i <= j,
                     CHOOSE i \in ink : \A j \in ink : i >= j)

\* The lines of t that are more than whitespace.
InkLines(t) == { c \in LinesOf(t) : Trimmed(t, c) # <<>> }

\* The place of line c among the lines of the set L, counted from 1.
Place(L, c) == Cardinality({ d \in L : d[1] <= c[1] })

\* C11: the returned text is the lines of the normalizer's output, each
\* stripped, the empty ones removed, in their order, joined by single
\* newlines: no empty line, no two adjacent newlines, no newline at an end.
C11_StrippedLines ==
  pc = "returned" =>
    LET t == md(html)
        r == response
    IN  /\ r # <<>> => r[1] # NL /\ r[Len(r)] # NL
        /\ \A i \in 1..(Len(r) - 1) : ~(r[i] = NL /\ r[i + 1] = NL)
        /\ r = <<>> <=> InkLines(t) = {}
        /\ r # <<>> =>
             /\ Cardinality(LinesOf(r)) = Cardinality(InkLines(t))
             /\ \A c \in LinesOf(r) :
                  /\ SubSeq(r, c[1] + 1, c[2] - 1) # <<>>
                  /\ ~IsSpace(r[c[1] + 1])
                  /\ ~IsSpace(r[c[2] - 1])
                  /\ \E d \in InkLines(t) :
                       /\ Place(InkLines(t), d) = Place(LinesOf(r), c)
                       /\ Trimmed(t, d) = SubSeq(r, c[1] + 1, c[2] - 1)

C11_Witness ==
  /\ pc = "returned"
  /\ html = ExampleMarkup
  /\ response = <<"a", NL, "b">>

\* An earlier call of the session has sent the submit key: the input control,
\* which the running call has not cleared yet, holds it as its last key.
PriorSubmit ==
  /\ pc \in {"baseline", "input", "clear"}
  /\ box # <<>>
  /\ box[Len(box)] = ENTER

\* C12: a call made after an earlier call of the session submitted a prompt,
\* whether that call returned or raised, takes as its baseline the number
\* of reply elements the page shows before its own submission, not 0.
C12_BaselineAfterSubmit ==
  [][(pc = "baseline" /\ pc' = "input" /\ PriorSubmit) =>
       num_history_replies' = Len(replies)]_vars

\* C13, as claimed: when stability is declared, the three most recent
\* stability polls were all successful reads of the same content: a failed
\* read between equal reads breaks the run.  Stated for the returns of
\* non-empty content, the empty ones being C1's.
C13_ThreeLatestPolls ==
  (pc = "returned" /\ lastRead # <<>>) => cleanRun >= 3

\* C13, amended: the counter counts the successful reads that found the
\* content of the successful read before them (the first one being compared
\* with the empty string) and a failed read leaves it as it is: when
\* stability is declared, the three most recent successful reads found the
\* same content, failed polls between them being skipped.
C13_FailedReadsSkipped ==
  pc \in {"stable", "returned"} =>
    /\ lastRead = NoRead => stable_count = 0 /\ previous_html = <<>>
    /\ lastRead # NoRead =>
         /\ previous_html = lastRead
         /\ stable_count \in {streak - 1, streak}
         /\ lastRead # <<>> => stable_count = streak - 1
    /\ pc = "returned" => stable_count = 3 /\ streak >= 3
    /\ cleanRun <= streak

C13_Witness ==
  /\ pc = "returned"
  /\ lastRead = <<"a">>
  /\ streak = 4
  /\ cleanRun = 1

\* C14: the appearance poll that first sees more replies than the baseline
\* fixes the newest (last) reply element the page shows at that moment, also
\* when the count has grown by more than one.
C14_TracksNewest ==
  [][(pc = "appear" /\ pc' = "stable") =>
       latest_reply' = replies[Len(replies)]]_vars

Running ==
  pc \in {"baseline", "input", "clear", "fill", "enter", "appear", "stable"}

\* Steps the running call can still take at most, whatever the page does.
Rank ==
  CASE pc = "baseline" -> 2 * maximum_trials + 7
    [] pc = "input" -> 2 * maximum_trials + 6
    [] pc = "clear" -> 2 * maximum_trials + 5
    [] pc = "fill" -> 2 * maximum_trials + 4
    [] pc = "enter" -> 2 * maximum_trials + 3
    [] pc = "appear" -> (maximum_trials - trial) + maximum_trials + 2
    [] pc = "stable" -> (maximum_trials - trial) + 1
    [] OTHER -> 0

\* C15: every call ends whatever the page does: a running call can always
\* take a step and every step of it lowers the bound on the steps left; it
\* makes at most 60 appearance polls and then at most 60 stability polls,
\* the stability loop starting with its full budget however many attempts
\* the appearance loop used, and it reads no content before an appearance
\* poll has succeeded.
C15_BoundedPolling ==
  /\ [](Running => ENABLED ProgramStep)
  /\ [](/\ pc = "appear" => polls <= 60 /\ contentReads = 0
        /\ pc = "stable" => polls <= 60 /\ polls = contentReads
        /\ contentReads <= 60
        /\ contentReads > 0 => latest_reply # None
        /\ latest_reply = None => pc # "stable"
        /\ (pc = "raised" /\ error = UnstableMsg) => contentReads = 60)
  /\ [][/\ (Running /\ (pc' # pc \/ trial' # trial)) =>
            Rank' < Rank /\ Rank' >= 0
        /\ (pc = "appear" /\ pc' = "stable") =>
            trial' = 0 /\ polls' = 0 /\ contentReads' = 0
        /\ (Running /\ polls' # polls /\ pc' # "stable") =>
            polls' = polls + 1 /\ trial' = trial + 1]_vars

C15_Witness ==
  /\ pc = "raised"
  /\ error = UnstableMsg
  /\ contentReads = 60
  /\ ~allDiffer
  /\ ~allFail
  /\ calls = 2
  /\ ~is_our_first_chat

\* The stability poll at which the content read last took its value.
LastChange == polls - streak + 1

NoFailedRead == ~anyFail /\ lastRead # NoRead /\ lastRead # <<>>

\* C17: with no failed read, when the non-empty content of the tracked
\* element changed last at stability poll p, the call is still polling
\* before poll p + 3, returns at poll p + 3 when p <= 57, and raises the
\* unstable-reply timeout, after all 60 polls, when p >= 58; no call returns
\* non-empty content before its 4th stability poll.
C17_ReturnsThreePollsAfterChange ==
  /\ [](NoFailedRead =>
         /\ pc = "stable" =>
              /\ polls < LastChange + 3
              /\ stable_count = polls - LastChange
         /\ pc = "returned" => polls = LastChange + 3 /\ LastChange <= 57
         /\ (pc = "raised" /\ error = UnstableMsg) =>
              LastChange >= 58 /\ polls = 60)
  /\ []((pc = "returned" /\ lastRead # <<>>) => polls >= 4)
  /\ [][/\ (pc = "stable" /\ NoFailedRead /\ polls = LastChange + 2
              /\ polls' = polls + 1 /\ lastRead' = lastRead /\ ~anyFail') =>
             pc' = "returned"
        /\ (pc = "stable" /\ pc' = "raised") =>
             polls = 60 /\ error' = UnstableMsg]_vars

C17_Witness ==
  /\ pc = "raised"
  /\ error = UnstableMsg
  /\ NoFailedRead
  /\ lastRead = <<"a">>
  /\ LastChange = 58
  /\ polls = 60

\* C16: every browser the program started is quit exactly once by the time
\* the program ends, whichever way it ends, and never more than once.
C16_ClosedExactlyOnce ==
  /\ quits <= opened
  /\ mpc = "ended" => quits = opened

====
